---- MODULE Spec2Model ----
(***************************************************************************)
(* A model of textacy/texts.py: TextDoc (construction, lazy term counting) *)
(* and TextCorpus (membership management, corpus_index bookkeeping).       *)
(*                                                                         *)
(* Spec      : the TextCorpus operations on a heap of TextDoc objects.     *)
(* SpecTerms : the term counting operations of one TextDoc.                *)
(***************************************************************************)
EXTENDS Integers, Sequences, FiniteSets, TLC

VARIABLES
    heap,       \* the TextDoc objects ever constructed, by object id 1..Len(heap)
    corpora,    \* the TextCorpus objects, by corpus id
    last,       \* the call made by the last step: its arguments and outcome
    tdoc,       \* SpecTerms: the parsed document whose terms are counted
    term_counts_, \* SpecTerms: TextDoc._term_counts, a Counter (term id -> count > 0)
    performed,  \* SpecTerms: per term, the largest count any extraction made so far gave it
    ncalls,     \* SpecTerms: the number of term_counts / term_count calls made
    tlast       \* SpecTerms: the last term_counts / term_count call and its result

vars == <<heap, corpora, last, tdoc, term_counts_, performed, ncalls, tlast>>
cvars == <<heap, corpora, last>>
tvars == <<tdoc, term_counts_, performed, ncalls, tlast>>

(***************************************************************************)
(* Bounds of the model.                                                    *)
(***************************************************************************)
MaxObjs == 2        \* TextDoc objects constructed in one behaviour
MaxDrift == 0       \* how far below zero a corpus_index may be driven
MaxTexts == 1       \* texts handed to one from_texts call
MaxLimit == 1       \* largest `limit` passed to get_docs / remove_docs
MaxTokens == 2      \* tokens of the document whose terms are counted
MaxN == 2           \* largest n of an ngram_range
MaxCalls == 2       \* term_counts / term_count calls made on the document

(***************************************************************************)
(* Values.                                                                 *)
(***************************************************************************)
None == "None"
NoLimit == -1       \* limit=None
Langs == {"en", "de"}
CorpusIds == {1, 2}
NoCorpus == [exists |-> FALSE]

\* What the NLP engine makes of a text: its sentence and token counts.
Shapes == {[n_sents |-> 1, n_tokens |-> 2], [n_sents |-> 2, n_tokens |-> 5]}
\* A raw text: the language text_utils.detect_language finds, and its parse.
Texts == [detected : Langs, shape : Shapes]

Min(a, b) == IF a < b THEN a ELSE b
Max(a, b) == IF a > b THEN a ELSE b

\* text_utils.detect_language(text)
detect_language(text) == text.detected

\* data.load_spacy(lang): the pipeline of that language; a pipeline is
\* represented by its .lang
load_spacy(lang) == lang

(***************************************************************************)
(* TextDoc.__init__                                                        *)
(***************************************************************************)
\* kind: "str" (raw text), "sdoc" (an already parsed spacy Doc), "other".
\* spacy_pipeline: None or the pipeline's lang.  lang: None or a language.
\* The result: whether ValueError is raised, and self.lang otherwise.
TextDoc_init(kind, text, spacy_pipeline, lang) ==
    IF kind = "str" THEN
        LET self_lang == IF lang = None THEN detect_language(text) ELSE lang
        IN  IF spacy_pipeline = None
            THEN [raised |-> FALSE, lang |-> load_spacy(self_lang)]
            ELSE IF spacy_pipeline # self_lang
                 THEN [raised |-> TRUE, lang |-> self_lang]
                 ELSE [raised |-> FALSE, lang |-> self_lang]
    ELSE IF kind = "sdoc" THEN
        [raised |-> FALSE,
         lang |-> IF spacy_pipeline # None THEN spacy_pipeline
                  ELSE detect_language(text)]
    ELSE [raised |-> TRUE, lang |-> None]

\* A freshly constructed TextDoc: no corpus_index and no corpus attribute yet.
NewDoc(lang, shape) ==
    [lang |-> lang, n_sents |-> shape.n_sents, n_tokens |-> shape.n_tokens,
     has_corpus_index |-> FALSE, corpus_index |-> 0, corpus |-> 0]

(***************************************************************************)
(* TextCorpus                                                              *)
(***************************************************************************)
\* TextCorpus.__init__(lang)
TextCorpus_init(lang) ==
    [exists |-> TRUE, lang |-> lang, spacy_pipeline |-> load_spacy(lang),
     docs |-> <<>>, n_docs |-> 0, n_sents |-> 0, n_tokens |-> 0]

\* TextCorpus.__len__
len(corpus) == corpus.n_docs

\* Python's s[start:] on a list
SliceFrom(s, start) ==
    LET n == Len(s)
        st == IF start < 0 THEN Max(start + n, 0) ELSE Min(start, n)
    IN  SubSeq(s, st + 1, n)

\* TextCorpus.__getitem__ with the slice index+1: (self.docs[index + 1:])
getitem_slice(corpus, start) == SliceFrom(corpus.docs, start)

\* TextCorpus defines __getitem__, __len__ and __iter__ but no __delitem__:
\* `del self[index]` raises TypeError and deletes nothing.
delitem(corpus, index) == [raised |-> TRUE, corpus |-> corpus]

\* hasattr(doc, 'corpus_index')
AlwaysFresh(h, d) == FALSE
already_added(h, d) == h[d].has_corpus_index

\* doc.lang != self.lang
NeverMismatch(corpus, doc) == FALSE
lang_mismatch(corpus, doc) == doc.lang # corpus.lang

\* The tail shared by add_text and add_doc: number the doc, point it at the
\* corpus, append it, and add to the aggregate counters.
\* h: the heap, cs: the corpora, c: the corpus id, d: the doc's object id.
attach_numbered_from_one(h, cs, c, d) ==
    [heap |-> [h EXCEPT ![d].has_corpus_index = TRUE,
                        ![d].corpus_index = cs[c].n_docs + 1,
                        ![d].corpus = c],
     corpora |-> [cs EXCEPT ![c].docs = Append(@, d),
                            ![c].n_docs = @ + 1,
                            ![c].n_sents = @ + h[d].n_sents,
                            ![c].n_tokens = @ + h[d].n_tokens]]
\* an attach that forgets the sentence and token counters
attach_uncounted(h, cs, c, d) ==
    [heap |-> [h EXCEPT ![d].has_corpus_index = TRUE,
                        ![d].corpus_index = cs[c].n_docs,
                        ![d].corpus = c],
     corpora |-> [cs EXCEPT ![c].docs = Append(@, d),
                            ![c].n_docs = @ + 1]]
attach(h, cs, c, d) ==
    [heap |-> [h EXCEPT ![d].has_corpus_index = TRUE,
                        ![d].corpus_index = cs[c].n_docs,
                        ![d].corpus = c],
     corpora |-> [cs EXCEPT ![c].docs = Append(@, d),
                            ![c].n_docs = @ + 1,
                            ![c].n_sents = @ + h[d].n_sents,
                            ![c].n_tokens = @ + h[d].n_tokens]]

\* an add_doc that compares the langs only after it has stored the doc
add_doc_checked_late(h, cs, c, d) ==
    LET r == attach(h, cs, c, d)
    IN  [raised |-> h[d].lang # cs[c].lang, heap |-> r.heap, corpora |-> r.corpora,
         stored |-> IF h[d].lang # cs[c].lang THEN 0 ELSE d]

\* TextCorpus.add_doc(doc) on heap h and corpora cs; d is the doc passed in.
\* copy.deepcopy(doc) is a new object with the same attributes.
add_doc_result(h, cs, c, d) ==
    IF lang_mismatch(cs[c], h[d])
    THEN [raised |-> TRUE, heap |-> h, corpora |-> cs, stored |-> 0]
    ELSE IF already_added(h, d)
         THEN LET h2 == Append(h, h[d])
                  r == attach(h2, cs, c, Len(h2))
              IN  [raised |-> FALSE, heap |-> r.heap, corpora |-> r.corpora,
                   stored |-> Len(h2)]
         ELSE LET r == attach(h, cs, c, d)
              IN  [raised |-> FALSE, heap |-> r.heap, corpora |-> r.corpora,
                   stored |-> d]

\* The objects add_doc(d) constructs: one when it deep-copies, else none.
add_doc_allocs(h, cs, c, d) ==
    IF ~lang_mismatch(cs[c], h[d]) /\ already_added(h, d) THEN 1 ELSE 0

\* match_condition(doc) is True: a condition is the set of parses it accepts
Conditions == SUBSET Shapes
match_condition(cond, doc) ==
    [n_sents |-> doc.n_sents, n_tokens |-> doc.n_tokens] \in cond

\* TextCorpus.get_docs(match_condition, limit): the docs it yields, in order.
\* ds: the docs still to visit; n: n_matched_docs so far.
RECURSIVE get_docs_from(_, _, _, _, _)
get_docs_from(h, ds, cond, limit, n) ==
    IF ds = <<>> THEN <<>>
    ELSE IF match_condition(cond, h[Head(ds)])
         THEN IF limit = NoLimit
              THEN <<Head(ds)>> \o get_docs_from(h, Tail(ds), cond, limit, n)
              ELSE IF n + 1 > limit THEN <<>>
                   ELSE <<Head(ds)>> \o
                        get_docs_from(h, Tail(ds), cond, limit, n + 1)
         ELSE get_docs_from(h, Tail(ds), cond, limit, n)
\* a get_docs that ignores its limit
get_docs_unlimited(h, corpus, cond, limit) ==
    get_docs_from(h, corpus.docs, cond, NoLimit, 0)
get_docs(h, corpus, cond, limit) == get_docs_from(h, corpus.docs, cond, limit, 0)

\* for doc in <docs>: doc.corpus_index -= 1
RECURSIVE decrement_all(_, _)
decrement_all(h, ds) ==
    IF ds = <<>> THEN h
    ELSE decrement_all([h EXCEPT ![Head(ds)].corpus_index = @ - 1], Tail(ds))

\* for i, doc in enumerate(self): doc.corpus_index = i    (i: index of Head(ds))
RECURSIVE renumber(_, _, _)
renumber(h, ds, i) ==
    IF ds = <<>> THEN h
    ELSE renumber([h EXCEPT ![Head(ds)].corpus_index = i], Tail(ds), i + 1)

\* TextCorpus.remove_doc(index)
remove_doc_result(h, cs, c, index) ==
    LET h2 == decrement_all(h, getitem_slice(cs[c], index + 1))
        del == delitem(cs[c], index)
    IN  IF del.raised
        THEN [raised |-> TRUE, heap |-> h2, corpora |-> cs]
        ELSE [raised |-> FALSE, heap |-> h2,
              corpora |-> [cs EXCEPT ![c] = del.corpus]]

\* for index in remove_indexes: del self[index]
RECURSIVE delete_each(_, _)
delete_each(corpus, indexes) ==
    IF indexes = <<>> THEN [raised |-> FALSE, corpus |-> corpus]
    ELSE LET del == delitem(corpus, Head(indexes))
         IN  IF del.raised THEN del
             ELSE delete_each(del.corpus, Tail(indexes))

\* TextCorpus.remove_docs(match_condition, limit)
remove_docs_result(h, cs, c, cond, limit) ==
    LET matched == get_docs(h, cs[c], cond, limit)
        remove_indexes == [i \in 1..Len(matched) |-> h[matched[i]].corpus_index]
        del == delete_each(cs[c], remove_indexes)
    IN  IF del.raised
        THEN [raised |-> TRUE, heap |-> h, corpora |-> cs]
        ELSE [raised |-> FALSE,
              heap |-> renumber(h, del.corpus.docs, 0),
              corpora |-> [cs EXCEPT ![c] = del.corpus]]

(***************************************************************************)
(* TextDoc: the parsed document and its terms.                             *)
(*                                                                         *)
(* A string is a sequence of characters.  A parsed document is a sequence  *)
(* of tokens; a span is <<start, end>>, the tokens start..end-1 (0-based). *)
(* A term id is represented by the string the string store interns for it  *)
(* (spacy_stringstore[str] and spacy_stringstore[id] are inverse).         *)
(***************************************************************************)
SP == " "
TokenTypes ==
    {[text |-> <<"a", "b">>, lemma |-> <<"a">>, pos |-> "NOUN"],
     [text |-> <<"B">>,      lemma |-> <<"b">>, pos |-> "PROPN"],
     [text |-> <<".">>,      lemma |-> <<".">>, pos |-> "PUNCT"]}
TermDocs == UNION {[1..n -> TokenTypes] : n \in 0..MaxTokens}

Range(f) == {f[i] : i \in DOMAIN f}

\* ' '.join(strs)
RECURSIVE Join(_)
Join(strs) ==
    IF strs = <<>> THEN <<>>
    ELSE IF Len(strs) = 1 THEN strs[1]
    ELSE strs[1] \o <<SP>> \o Join(Tail(strs))

\* s.count(' ')
count_spaces(s) == Cardinality({i \in 1..Len(s) : s[i] = SP})

\* span.text, span.lemma_ and spacy_utils.normalized_str(span)
text_of(doc, span) ==
    Join([i \in 1..(span[2] - span[1]) |-> doc[span[1] + i].text])
lemma_of(doc, span) ==
    Join([i \in 1..(span[2] - span[1]) |-> doc[span[1] + i].lemma])
normalized_str(doc, span) ==
    Join([i \in 1..(span[2] - span[1]) |->
            IF doc[span[1] + i].pos = "PROPN" THEN doc[span[1] + i].text
            ELSE doc[span[1] + i].lemma])

\* TextDoc.text: the raw text
raw_text(doc) == text_of(doc, <<0, Len(doc)>>)
\* TextDoc.n_tokens
n_tokens(doc) == Len(doc)

IsWord(tok) == tok.pos # "PUNCT"

\* TextDoc.ngrams(n): the spans of n consecutive words, from token i on
RECURSIVE ngrams_from(_, _, _)
ngrams_from(doc, n, i) ==
    IF i + n > Len(doc) THEN <<>>
    ELSE (IF \A k \in (i + 1)..(i + n) : IsWord(doc[k])
          THEN <<<<i, i + n>>>> ELSE <<>>) \o ngrams_from(doc, n, i + 1)
ngrams(doc, n) == ngrams_from(doc, n, 0)
\* TextDoc.words()
words(doc) == ngrams(doc, 1)

\* the maximal runs of tokens whose part of speech is in `tags`, from token i on
RECURSIVE runs_from(_, _, _)
runs_from(doc, tags, i) ==
    IF i >= Len(doc) THEN <<>>
    ELSE IF doc[i + 1].pos \notin tags THEN runs_from(doc, tags, i + 1)
    ELSE LET end == CHOOSE j \in (i + 1)..Len(doc) :
                        /\ \A k \in (i + 1)..j : doc[k].pos \in tags
                        /\ j = Len(doc) \/ doc[j + 1].pos \notin tags
         IN  <<<<i, end>>>> \o runs_from(doc, tags, end)
\* TextDoc.named_entities(): the runs of proper nouns
named_entities(doc) == runs_from(doc, {"PROPN"}, 0)
\* TextDoc.noun_chunks(): the runs of nouns and proper nouns
noun_chunks(doc) == runs_from(doc, {"NOUN", "PROPN"}, 0)

\* TextDoc.key_terms(): the (term string, score) pairs: each distinct
\* normalized word once, in the order of first occurrence
RECURSIVE distinct_terms(_, _, _)
distinct_terms(doc, spans, seen) ==
    IF spans = <<>> THEN <<>>
    ELSE LET str == normalized_str(doc, Head(spans))
         IN  IF str \in seen THEN distinct_terms(doc, Tail(spans), seen)
             ELSE <<<<str, 1>>>> \o distinct_terms(doc, Tail(spans), seen \cup {str})
key_terms(doc) == distinct_terms(doc, words(doc), {})

(***************************************************************************)
(* collections.Counter                                                     *)
(***************************************************************************)
Counter0 == <<>>
\* counter[key]: 0 for a missing key
Get(counter, key) == IF key \in DOMAIN counter THEN counter[key] ELSE 0
\* Counter(iterable)
CounterOf(ids) ==
    [t \in Range(ids) |-> Cardinality({i \in DOMAIN ids : ids[i] = t})]
\* a + b: the sums, the positive ones only  (x, y: the operands' values)
CounterAdd(a, b) ==
    CHOOSE sum \in
        {[t \in {k \in DOMAIN x \cup DOMAIN y : Get(x, k) + Get(y, k) > 0} |->
            Get(x, t) + Get(y, t)] : x \in {a}, y \in {b}} : TRUE
\* a | b: the maxima, the positive ones only  (x, y: the operands' values)
CounterOr(a, b) ==
    CHOOSE union \in
        {[t \in {k \in DOMAIN x \cup DOMAIN y : Max(Get(x, k), Get(y, k)) > 0} |->
            Max(Get(x, t), Get(y, t))] : x \in {a}, y \in {b}} : TRUE

(***************************************************************************)
(* TextDoc.term_counts and TextDoc.term_count                              *)
(***************************************************************************)
\* get_id of term_counts: lemmatize is "auto", "True" or "False"
Modes == {"auto", "True", "False"}
get_id(lemmatize, doc, span) ==
    IF lemmatize = "auto" THEN normalized_str(doc, span)
    ELSE IF lemmatize = "True" THEN lemma_of(doc, span)
    ELSE text_of(doc, span)

\* A kind of extraction: <<get_id mode, what, n>>.  The ids it counts:
\* get_id(x) for x in self.words() / self.ngrams(n) / self.named_entities()
\* / self.noun_chunks(), and kt for kt, _ in self.key_terms()
extracted(doc, kind) ==
    LET spans == IF kind[2] = "ngram"
                 THEN (IF kind[3] = 1 THEN words(doc) ELSE ngrams(doc, kind[3]))
                 ELSE IF kind[2] = "ne" THEN named_entities(doc)
                 ELSE noun_chunks(doc)
        kts == key_terms(doc)
    IN  IF kind[2] = "kt"
        THEN [i \in 1..Len(kts) |-> kts[i][1]]
        ELSE [i \in 1..Len(spans) |-> get_id(kind[1], doc, spans[i])]

\* the kinds a term_counts call extracts, in the order it merges them
RECURSIVE range_kinds(_, _, _)
range_kinds(lemmatize, lo, hi) ==
    IF lo > hi THEN <<>>
    ELSE <<<<lemmatize, "ngram", lo>>>> \o range_kinds(lemmatize, lo + 1, hi)
requested(lemmatize, ngram_range, include_nes, include_ncs, include_kts) ==
    range_kinds(lemmatize, ngram_range[1], ngram_range[2])
    \o (IF include_nes THEN <<<<lemmatize, "ne", 0>>>> ELSE <<>>)
    \o (IF include_ncs THEN <<<<lemmatize, "nc", 0>>>> ELSE <<>>)
    \o (IF include_kts THEN <<<<"str", "kt", 0>>>> ELSE <<>>)

\* The parsed document as the state holds it: its tokens, and for every kind
\* of extraction the Counter(get_id(x) for x in <extraction>) it yields
Kinds == (Modes \X {"ngram"} \X (1..Max(MaxN, MaxTokens)))
         \cup (Modes \X {"ne", "nc"} \X {0}) \cup {<<"str", "kt", 0>>}
Parsed(tokens) ==
    [tokens |-> tokens,
     counts |-> [kind \in Kinds |-> CounterOf(extracted(tokens, kind))]]

\* self._term_counts = self._term_counts | Counter(...)
merge_by_sum(tc, extraction) == CounterAdd(tc, extraction)
merge(tc, extraction) == CounterOr(tc, extraction)

\* the merges of one term_counts call
RECURSIVE merge_all(_, _, _)
merge_all(doc, tc, kinds) ==
    IF kinds = <<>> THEN tc
    ELSE merge_all(doc, merge(tc, doc.counts[Head(kinds)]), Tail(kinds))

\* TextDoc.term_counts(...): the new _term_counts, which is also what it
\* returns (return self._term_counts)
returns_only_requested(doc, tc, lemmatize, ngram_range, nes, ncs, kts) ==
    merge_all(doc, Counter0, requested(lemmatize, ngram_range, nes, ncs, kts))
term_counts_result(doc, tc, lemmatize, ngram_range, nes, ncs, kts) ==
    merge_all(doc, tc, requested(lemmatize, ngram_range, nes, ncs, kts))

\* re.finditer(re.escape(pat), text): the non-overlapping matches from the left
RECURSIVE finditer_count(_, _, _)
finditer_count(pat, txt, from) ==
    IF pat = <<>> THEN Len(txt) + 2 - from
    ELSE IF from + Len(pat) - 1 > Len(txt) THEN 0
    ELSE IF SubSeq(txt, from, from + Len(pat) - 1) = pat
         THEN 1 + finditer_count(pat, txt, from + Len(pat))
         ELSE finditer_count(pat, txt, from + 1)

\* A term passed to term_count: [type |-> "str", s |-> string], or
\* [type |-> "stoken" / "sspan", span |-> span of the doc]
term_text_of(doc, term) ==
    IF term.type = "str" THEN term.s ELSE normalized_str(doc, term.span)
term_len_of(doc, term) ==
    IF term.type = "str" THEN count_spaces(term.s) + 1
    ELSE IF term.type = "stoken" THEN 1
    ELSE term.span[2] - term.span[1]

\* `have we not already counted the appropriate n n-grams?`:
\* any(self.spacy_stringstore[t].count(' ') == term_len for t in self._term_counts)
already_counted(tc, term_len) ==
    \E t \in DOMAIN tc : count_spaces(t) = term_len

\* a term_count that goes straight to the regular expression
regex_only(doc, tc, term) ==
    [tc |-> tc,
     ret |-> finditer_count(term_text_of(doc.tokens, term), raw_text(doc.tokens), 1),
     extended |-> FALSE]

\* TextDoc.term_count(term): the new _term_counts, the count returned, and
\* whether the lazy extension ran
term_count_result(doc, tc, term) ==
    LET term_text == term_text_of(doc.tokens, term)
        term_id == term_text
        term_len == term_len_of(doc.tokens, term)
        regex == finditer_count(term_text, raw_text(doc.tokens), 1)
    IN  IF Get(tc, term_id) > 0
        THEN [tc |-> tc, ret |-> Get(tc, term_id), extended |-> FALSE]
        ELSE IF ~already_counted(tc, term_len)
             THEN LET tc2 == CounterAdd(tc, doc.counts[<<"auto", "ngram", term_len>>])
                  IN  [tc |-> tc2,
                       ret |-> IF Get(tc2, term_id) > 0 THEN Get(tc2, term_id)
                               ELSE regex,
                       extended |-> TRUE]
             ELSE [tc |-> tc, ret |-> regex, extended |-> FALSE]

\* History: the extractions `kinds` are made; per term, the largest number of
\* occurrences any one extraction made so far has counted
RECURSIVE max_of(_, _, _)
max_of(doc, seen, kinds) ==
    IF kinds = <<>> THEN seen
    ELSE max_of(doc, CounterOr(seen, doc.counts[Head(kinds)]), Tail(kinds))

\* What `tlast` records of a call on the doc
TCall(op, ret) == [op |-> op, ret |-> ret]

\* the ngram_range arguments: unigrams only (the default), all up to MaxN,
\* MaxN-grams only, and an empty range
Ranges == {<<1, 1>>, <<1, MaxN>>, <<MaxN, MaxN>>, <<2, 1>>}
\* the include_nes, include_ncs, include_kts arguments
Includes == {<<FALSE, FALSE, FALSE>>, <<TRUE, FALSE, FALSE>>, <<FALSE, TRUE, FALSE>>,
             <<FALSE, FALSE, TRUE>>, <<TRUE, TRUE, TRUE>>}
\* doc.term_counts(lemmatize, ngram_range, include_nes, include_ncs, include_kts)
term_counts(lemmatize, ngram_range, nes, ncs, kts) ==
    /\ term_counts_' = term_counts_result(tdoc, term_counts_, lemmatize,
                                          ngram_range, nes, ncs, kts)
    /\ performed' = max_of(tdoc, performed,
                            requested(lemmatize, ngram_range, nes, ncs, kts))
    /\ tlast' = TCall("term_counts", 0)
    /\ UNCHANGED tdoc

\* the terms passed to term_count: strings, tokens and spans of the doc
AllSpans(doc) == {sp \in (0..Len(doc)) \X (0..Len(doc)) : sp[1] < sp[2]}
TermInputs(doc) ==
    {[type |-> "str", s |-> get_id(m, doc, sp)] : m \in Modes, sp \in AllSpans(doc)}
    \cup {[type |-> "str", s |-> <<"z">>], [type |-> "str", s |-> <<"z", SP, "z">>]}
    \cup {[type |-> "stoken", span |-> sp] :
            sp \in {x \in AllSpans(doc) : x[2] = x[1] + 1}}
    \cup {[type |-> "sspan", span |-> sp] : sp \in AllSpans(doc)}

\* doc.term_count(term)
term_count(term) ==
    /\ \E r \in {term_count_result(tdoc, term_counts_, term)} :
        /\ term_counts_' = r.tc
        /\ performed' = IF r.extended
                        THEN max_of(tdoc, performed,
                                    <<<<"auto", "ngram", term_len_of(tdoc.tokens, term)>>>>)
                        ELSE performed
        /\ tlast' = TCall("term_count", r.ret)
    /\ UNCHANGED tdoc

(***************************************************************************)
(* TextDoc.as_terms_list                                                   *)
(***************************************************************************)
\* token.idx: the character offset of token i (0-based) in the raw text
idx_of(doc, i) == IF i = 0 THEN 0 ELSE Len(text_of(doc, <<0, i>>)) + 1

\* A term of the list: what it was extracted as, and its token span
Term(kind, span) == [kind |-> kind, span |-> span]
as_kind(kind, spans) == [k \in 1..Len(spans) |-> Term(kind, spans[k])]

\* (word for word in self.words() if (word.idx, word.idx + 1) not in ent_idxs)
RECURSIVE words_not_in(_, _, _)
words_not_in(doc, spans, ent_idxs) ==
    IF spans = <<>> THEN <<>>
    ELSE (IF <<idx_of(doc, Head(spans)[1]), idx_of(doc, Head(spans)[1]) + 1>> \notin ent_idxs
          THEN <<Head(spans)>> ELSE <<>>) \o words_not_in(doc, Tail(spans), ent_idxs)
\* (ngram for ngram in self.ngrams(n) if (ngram.start, ngram.end) not in ent_idxs)
RECURSIVE ngrams_not_in(_, _)
ngrams_not_in(spans, ent_idxs) ==
    IF spans = <<>> THEN <<>>
    ELSE (IF Head(spans) \notin ent_idxs THEN <<Head(spans)>> ELSE <<>>)
         \o ngrams_not_in(Tail(spans), ent_idxs)

\* for n in range(ngrams[0], ngrams[1] + 1): the n-grams of each n, skipping
\* n = 1 when words is True; ent_idxs = {} when nothing is to be skipped
RECURSIVE ngram_terms(_, _, _, _, _)
ngram_terms(doc, lo, hi, with_words, ent_idxs) ==
    IF lo > hi THEN <<>>
    ELSE (IF lo = 1 /\ with_words THEN <<>>
          ELSE as_kind("ngram", ngrams_not_in(ngrams(doc, lo), ent_idxs)))
         \o ngram_terms(doc, lo + 1, hi, with_words, ent_idxs)

\* ngrams=False-y: the empty tuple
NoNgrams == <<>>

\* TextDoc.as_terms_list(words, ngrams, named_entities, dedupe, lemmatize): the
\* terms in the order they are yielded
all_terms(doc, with_words, ngram_range, with_nes, dedupe) ==
    IF dedupe /\ with_nes /\ (with_words \/ ngram_range # NoNgrams)
    THEN LET ents == named_entities(doc)
             ent_idxs == {ents[k] : k \in 1..Len(ents)}
         IN  as_kind("ne", ents)
             \o (IF with_words
                 THEN as_kind("word", words_not_in(doc, words(doc), ent_idxs))
                 ELSE <<>>)
             \o (IF ngram_range # NoNgrams
                 THEN ngram_terms(doc, ngram_range[1], ngram_range[2], with_words, ent_idxs)
                 ELSE <<>>)
    ELSE (IF with_nes THEN as_kind("ne", named_entities(doc)) ELSE <<>>)
         \o (IF with_words THEN as_kind("word", words(doc)) ELSE <<>>)
         \o (IF ngram_range # NoNgrams
             THEN ngram_terms(doc, ngram_range[1], ngram_range[2], with_words, {})
             ELSE <<>>)
as_terms_list_result(doc, with_words, ngram_range, with_nes, dedupe, lemmatize) ==
    LET terms == all_terms(doc, with_words, ngram_range, with_nes, dedupe)
    IN  [k \in 1..Len(terms) |->
            [kind |-> terms[k].kind, span |-> terms[k].span,
             str |-> IF lemmatize THEN lemma_of(doc, terms[k].span)
                     ELSE text_of(doc, terms[k].span)]]

\* the ngrams arguments: none, the default-like range from 2, and from 1
NgramArgs == {NoNgrams, <<2, Max(2, MaxN)>>, <<1, MaxN>>}
\* list(doc.as_terms_list(words, ngrams, named_entities, dedupe, lemmatize))
as_terms_list(with_words, ngram_range, with_nes, dedupe, lemmatize) ==
    /\ tlast' = [op |-> "as_terms_list",
                 ret |-> as_terms_list_result(tdoc.tokens, with_words, ngram_range,
                                              with_nes, dedupe, lemmatize),
                 dedupe |-> dedupe, named_entities |-> with_nes]
    /\ UNCHANGED <<tdoc, term_counts_, performed, ncalls>>

(***************************************************************************)
(* TextDoc.as_bag_of_terms                                                 *)
(***************************************************************************)
\* A weight: an int, or the float num / den of a true division
Weight(num, den) == [num |-> num, den |-> den]

\* idf: None, an empty dict, or the dict that gives every term id an idf
NoIdf == "None"
EmptyIdf == "{}"
CorpusIdf == "idf"
Idfs == {NoIdf, EmptyIdf, CorpusIdf}
\* idf[key] of CorpusIdf
idf_of(key) == Len(key) + 1
\* `if ... and idf`: None and the empty dict are false
truthy(idf) == idf = CorpusIdf

\* a bag that takes the raw count whatever binary and normalized are
raw_weight(binary, normalized, val, n) == Weight(val, 1)
\* the tf weight of a term counted val times in a doc of n tokens
tf_weight(binary, normalized, val, n) ==
    IF binary THEN Weight(1, 1)
    ELSE IF normalized THEN Weight(val, n)
    ELSE Weight(val, 1)

\* TextDoc.as_bag_of_terms(...): the new _term_counts and the bag returned
as_bag_of_terms_result(doc, tc, weighting, normalized, binary, idf, lemmatize, ngram_range, nes, ncs, kts) ==
    LET counts == term_counts_result(doc, tc, lemmatize, ngram_range, nes, ncs, kts)
        tf == [key \in DOMAIN counts |->
                  tf_weight(binary, normalized, counts[key], n_tokens(doc.tokens))]
    IN  [tc |-> counts,
         ret |-> IF weighting = "tfidf" /\ truthy(idf)
                 THEN [key \in DOMAIN tf |->
                          Weight(tf[key].num * idf_of(key), tf[key].den)]
                 ELSE tf]

\* the weighting, idf / normalized, binary / term_counts arguments passed
Weightings == {<<"tf", NoIdf>>, <<"tf", CorpusIdf>>, <<"tfidf", NoIdf>>,
               <<"tfidf", EmptyIdf>>, <<"tfidf", CorpusIdf>>}
BagCounts == {"auto", "False"} \X {<<1, 1>>, <<1, MaxN>>}
             \X {<<FALSE, FALSE, FALSE>>, <<TRUE, TRUE, TRUE>>}
\* doc.as_bag_of_terms(weighting, normalized, binary, idf, lemmatize, ...)
as_bag_of_terms(weighting, normalized, binary, idf, lemmatize, ngram_range, nes, ncs, kts) ==
    /\ \E r \in {as_bag_of_terms_result(tdoc, term_counts_, weighting, normalized,
                                        binary, idf, lemmatize, ngram_range,
                                        nes, ncs, kts)} :
        /\ term_counts_' = r.tc
        /\ tlast' = [op |-> "as_bag_of_terms", ret |-> r.ret]
    /\ performed' = max_of(tdoc, performed,
                            requested(lemmatize, ngram_range, nes, ncs, kts))
    /\ UNCHANGED tdoc

(***************************************************************************)
(* The calls, as actions.                                                  *)
(***************************************************************************)
\* What `last` records of a call: the method, how it ended ("ok" or the
\* exception raised), the doc passed in and the doc stored (0: none).
Call(op, outcome, arg, stored) ==
    [op |-> op, outcome |-> outcome, arg |-> arg, stored |-> stored]

\* TextCorpus(lang); corpus ids are given out in order
NewCorpus(c, lang) ==
    /\ ~corpora[c].exists
    /\ \A b \in CorpusIds : b < c => corpora[b].exists
    /\ corpora' = [corpora EXCEPT ![c] = TextCorpus_init(lang)]
    /\ last' = Call("TextCorpus", "ok", 0, 0)
    /\ UNCHANGED <<heap>>

\* TextDoc(text_or_sdoc, spacy_pipeline, lang): a doc outside any corpus
NewTextDoc(kind, text, spacy_pipeline, lang) ==
    /\ Len(heap) < MaxObjs
    /\ LET r == TextDoc_init(kind, text, spacy_pipeline, lang)
       IN  IF r.raised
           THEN /\ heap' = heap
                /\ last' = Call("TextDoc", "ValueError", 0, 0)
           ELSE /\ heap' = Append(heap, NewDoc(r.lang, text.shape))
                /\ last' = Call("TextDoc", "ok", 0, Len(heap) + 1)
    /\ UNCHANGED <<corpora>>

\* corpus.add_text(text, lang)
add_text(c, text, lang) ==
    /\ corpora[c].exists
    /\ Len(heap) < MaxObjs
    /\ LET r == TextDoc_init("str", text, corpora[c].spacy_pipeline, lang)
           d == Len(heap) + 1
           a == attach(Append(heap, NewDoc(r.lang, text.shape)), corpora, c, d)
       IN  IF r.raised
           THEN /\ UNCHANGED <<heap, corpora>>
                /\ last' = Call("add_text", "ValueError", 0, 0)
           ELSE /\ heap' = a.heap
                /\ corpora' = a.corpora
                /\ last' = Call("add_text", "ok", 0, d)

\* corpus.add_doc(doc)
add_doc(c, d) ==
    /\ corpora[c].exists
    /\ d \in 1..Len(heap)
    /\ Len(heap) + add_doc_allocs(heap, corpora, c, d) <= MaxObjs
    /\ \E r \in {add_doc_result(heap, corpora, c, d)} :
           /\ heap' = r.heap
           /\ corpora' = r.corpora
           /\ last' = Call("add_doc", IF r.raised THEN "ValueError" ELSE "ok",
                           d, r.stored)

\* TextCorpus.from_texts(lang, texts): each text is parsed by the corpus's
\* pipeline, wrapped in a TextDoc and handed to add_doc.
RECURSIVE from_texts_loop(_, _, _, _, _)
from_texts_loop(h, cs, c, lang, texts) ==
    IF texts = <<>> THEN [heap |-> h, corpora |-> cs]
    ELSE LET t == TextDoc_init("sdoc", Head(texts), cs[c].spacy_pipeline, lang)
             h2 == Append(h, NewDoc(t.lang, Head(texts).shape))
             r == add_doc_result(h2, cs, c, Len(h2))
         IN  from_texts_loop(r.heap, r.corpora, c, lang, Tail(texts))

TextSeqs == UNION {[1..n -> Texts] : n \in 0..MaxTexts}

from_texts(c, lang, texts) ==
    /\ ~corpora[c].exists
    /\ \A b \in CorpusIds : b < c => corpora[b].exists
    /\ Len(heap) + Len(texts) <= MaxObjs
    /\ \E r \in {from_texts_loop(heap, [corpora EXCEPT ![c] = TextCorpus_init(lang)],
                                c, lang, texts)} :
           /\ heap' = r.heap
           /\ corpora' = r.corpora
    /\ last' = Call("from_texts", "ok", 0, 0)

\* the docs remove_doc(index) renumbers all have a corpus_index above -MaxDrift
Drift(c, index) ==
    LET ds == getitem_slice(corpora[c], index + 1)
    IN  \A i \in 1..Len(ds) : heap[ds[i]].corpus_index > -MaxDrift

\* corpus.remove_doc(index)
remove_doc(c, index) ==
    /\ corpora[c].exists
    /\ Drift(c, index)
    /\ \E r \in {remove_doc_result(heap, corpora, c, index)} :
           /\ heap' = r.heap
           /\ corpora' = r.corpora
           /\ last' = Call("remove_doc", IF r.raised THEN "TypeError" ELSE "ok", 0, 0)

\* corpus.remove_docs(match_condition, limit)
remove_docs(c, cond, limit) ==
    /\ corpora[c].exists
    /\ \E r \in {remove_docs_result(heap, corpora, c, cond, limit)} :
           /\ heap' = r.heap
           /\ corpora' = r.corpora
           /\ last' = Call("remove_docs", IF r.raised THEN "TypeError" ELSE "ok", 0, 0)

Limits == {NoLimit} \cup 0..MaxLimit
\* the indexes tried on a corpus: every valid one, and one beyond either end
Indexes(c) == IF corpora[c].exists
              THEN -(Len(corpora[c].docs) + 1)..Len(corpora[c].docs)
              ELSE {}

Init ==
    /\ heap = <<>>
    /\ corpora = [c \in CorpusIds |-> NoCorpus]
    /\ last = Call("init", "ok", 0, 0)
    /\ tdoc = Parsed(<<>>)
    /\ term_counts_ = Counter0
    /\ performed = Counter0
    /\ ncalls = 0
    /\ tlast = TCall("init", 0)

DoNewCorpus ==
    /\ \E c \in CorpusIds, lang \in Langs : NewCorpus(c, lang)
    /\ UNCHANGED tvars
DoNewTextDoc ==
    /\ \E text \in Texts : NewTextDoc("str", text, None, None)
    /\ UNCHANGED tvars
DoAddText ==
    /\ \E c \in CorpusIds, text \in Texts, lang \in Langs \cup {None} :
            add_text(c, text, lang)
    /\ UNCHANGED tvars
DoAddDoc ==
    /\ \E c \in CorpusIds, d \in 1..MaxObjs : add_doc(c, d)
    /\ UNCHANGED tvars
DoFromTexts ==
    /\ \E c \in CorpusIds, lang \in Langs, texts \in TextSeqs :
            from_texts(c, lang, texts)
    /\ UNCHANGED tvars
DoRemoveDoc ==
    /\ \E c \in CorpusIds : \E index \in Indexes(c) : remove_doc(c, index)
    /\ UNCHANGED tvars
DoRemoveDocs ==
    /\ \E c \in CorpusIds, cond \in Conditions, limit \in Limits :
            remove_docs(c, cond, limit)
    /\ UNCHANGED tvars

Next ==
    \/ DoNewCorpus
    \/ DoNewTextDoc
    \/ DoAddText
    \/ DoAddDoc
    \/ DoFromTexts
    \/ DoRemoveDoc
    \/ DoRemoveDocs

Spec == Init /\ [][Next]_vars

\* SpecTerms: one TextDoc, parsed from any text, and the calls that count
\* its terms
InitTerms ==
    /\ heap = <<>>
    /\ corpora = [c \in CorpusIds |-> NoCorpus]
    /\ last = Call("init", "ok", 0, 0)
    /\ tdoc \in {Parsed(tokens) : tokens \in TermDocs}
    /\ term_counts_ = Counter0
    /\ performed = Counter0
    /\ ncalls = 0
    /\ tlast = TCall("init", 0)

DoTermCounts ==
    /\ ncalls < MaxCalls
    /\ ncalls' = ncalls + 1
    /\ \E lemmatize \in Modes, ngram_range \in Ranges, inc \in Includes :
            term_counts(lemmatize, ngram_range, inc[1], inc[2], inc[3])
    /\ UNCHANGED cvars
DoTermCount ==
    /\ ncalls < MaxCalls
    /\ ncalls' = ncalls + 1
    /\ \E term \in TermInputs(tdoc.tokens) : term_count(term)
    /\ UNCHANGED cvars

NextTerms ==
    \/ DoTermCounts
    \/ DoTermCount

SpecTerms == InitTerms /\ [][NextTerms]_vars

\* list(corpus.get_docs(match_condition, limit)): the generator runs to its
\* end; it assigns to nothing but its own n_matched_docs
GetDocs(c, cond, limit) ==
    /\ corpora[c].exists
    /\ last' = [op |-> "get_docs", outcome |-> "ok", arg |-> 0, stored |-> 0,
                corpus |-> c, cond |-> cond, limit |-> limit,
                ret |-> get_docs(heap, corpora[c], cond, limit)]
    /\ UNCHANGED <<heap, corpora>>

DoGetDocs ==
    /\ \E c \in CorpusIds, cond \in Conditions, limit \in Limits : GetDocs(c, cond, limit)
    /\ UNCHANGED tvars

\* Corpora filled by add_text, and queried
NextGet ==
    \/ DoNewCorpus
    \/ DoAddText
    \/ DoGetDocs

SpecGet == Init /\ [][NextGet]_vars

\* TextDoc(text_or_sdoc, spacy_pipeline, lang) with every kind of argument:
\* text_or_sdoc a str, a spacy Doc or something else; a pipeline and a lang
\* given or None
InputKinds == {"str", "sdoc", "other"}
Construct(kind, text, spacy_pipeline, lang) ==
    /\ Len(heap) < MaxObjs
    /\ \E r \in {TextDoc_init(kind, text, spacy_pipeline, lang)} :
        /\ heap' = IF r.raised THEN heap ELSE Append(heap, NewDoc(r.lang, text.shape))
        /\ last' = [op |-> "TextDoc",
                    outcome |-> IF r.raised THEN "ValueError" ELSE "ok",
                    kind |-> kind, text |-> text,
                    spacy_pipeline |-> spacy_pipeline, lang |-> lang,
                    stored |-> IF r.raised THEN 0 ELSE Len(heap) + 1]
    /\ UNCHANGED corpora

DoConstruct ==
    /\ \E kind \in InputKinds, text \in Texts,
          spacy_pipeline \in Langs \cup {None}, lang \in Langs \cup {None} :
        Construct(kind, text, spacy_pipeline, lang)
    /\ UNCHANGED tvars

NextDoc == DoConstruct

SpecDoc == Init /\ [][NextDoc]_vars

\* The term list of one TextDoc
DoAsTermsList ==
    /\ \E with_words \in BOOLEAN, ngram_range \in NgramArgs, with_nes \in BOOLEAN,
          dedupe \in BOOLEAN, lemmatize \in BOOLEAN :
        as_terms_list(with_words, ngram_range, with_nes, dedupe, lemmatize)
    /\ UNCHANGED cvars

NextList == DoAsTermsList

SpecList == InitTerms /\ [][NextList]_vars

\* The bags of terms of one TextDoc
DoAsBagOfTerms ==
    /\ ncalls < MaxCalls
    /\ ncalls' = ncalls + 1
    /\ \E w \in Weightings, normalized \in BOOLEAN, binary \in BOOLEAN, c \in BagCounts :
        as_bag_of_terms(w[1], normalized, binary, w[2],
                        c[1], c[2], c[3][1], c[3][2], c[3][3])
    /\ UNCHANGED cvars

NextBag == DoAsBagOfTerms

SpecBag == InitTerms /\ [][NextBag]_vars


(***************************************************************************)
(* Properties of TextCorpus.                                               *)
(***************************************************************************)
Docs(c) == IF corpora[c].exists THEN corpora[c].docs ELSE <<>>
Holds(c, d) == \E i \in 1..Len(Docs(c)) : Docs(c)[i] = d
Owned(d) == \E c \in CorpusIds : Holds(c, d)

\* the sequence s without the positions in R
RECURSIVE Without(_, _, _)
Without(s, R, i) ==
    IF i > Len(s) THEN <<>>
    ELSE (IF i \in R THEN <<>> ELSE <<s[i]>>) \o Without(s, R, i + 1)

\* C1: in every reachable state each doc held by a corpus has corpus_index
\* equal to its position in the corpus's doc sequence.
C1_CorpusIndexIsPosition ==
    \A c \in CorpusIds : \A i \in 1..Len(Docs(c)) :
        heap[Docs(c)[i]].corpus_index = i - 1

\* C2: remove_doc(index) with 0 <= index < n removes the doc at index: the
\* other n-1 docs stay in their order, the corpus_index of each later doc is
\* one less than before and that of each earlier doc is unchanged.
C2_RemoveDocRemoves ==
    [][last'.op = "remove_doc" =>
       \A c \in CorpusIds : \A index \in 0..(Len(Docs(c)) - 1) :
        remove_doc(c, index) =>
            /\ corpora'[c].docs = Without(Docs(c), {index + 1}, 1)
            /\ \A i \in 1..Len(Docs(c)) :
                LET d == Docs(c)[i]
                IN  /\ i < index + 1 => heap'[d].corpus_index = heap[d].corpus_index
                    /\ i > index + 1 =>
                           heap'[d].corpus_index = heap[d].corpus_index - 1]_vars

\* the positions whose doc the condition accepts, and those among them that
\* remove_docs(match_condition, limit) is to remove
Matching(c, cond) ==
    {i \in 1..Len(Docs(c)) : match_condition(cond, heap[Docs(c)[i]])}
ToRemove(c, cond, limit) ==
    IF limit = NoLimit THEN Matching(c, cond)
    ELSE {i \in Matching(c, cond) :
            Cardinality({j \in Matching(c, cond) : j < i}) < limit}

\* C3: remove_docs(match_condition, limit) removes exactly the matching docs
\* (the first `limit` of them when a limit is given) and keeps every other
\* doc in its former relative order.
C3_RemoveDocsRemovesMatches ==
    [][last'.op = "remove_docs" =>
       \A c \in CorpusIds, cond \in Conditions, limit \in Limits :
        remove_docs(c, cond, limit) =>
            corpora'[c].docs = Without(Docs(c), ToRemove(c, cond, limit), 1)]_vars

\* what a successful add_text / add_doc on corpus c leaves behind
Appended(c) ==
    LET old == corpora[c]
        new == corpora'[c]
        n == Len(old.docs)
    IN  /\ Len(new.docs) = n + 1
        /\ SubSeq(new.docs, 1, n) = old.docs
        /\ LET d == new.docs[n + 1]
           IN  /\ heap'[d].has_corpus_index
               /\ heap'[d].corpus_index = old.n_docs
               /\ heap'[d].corpus = c
               /\ new.n_docs = old.n_docs + 1
               /\ new.n_sents = old.n_sents + heap'[d].n_sents
               /\ new.n_tokens = old.n_tokens + heap'[d].n_tokens
        /\ \A i \in 1..n : heap'[old.docs[i]] = heap[old.docs[i]]

NoAliasing ==
    \A c1, c2 \in CorpusIds :
        \A i \in 1..Len(Docs(c1)), j \in 1..Len(Docs(c2)) :
            Docs(c1)[i] = Docs(c2)[j] => (c1 = c2 /\ i = j)

C6_DocsShareCorpusLang ==
    \A c \in CorpusIds : \A i \in 1..Len(Docs(c)) :
        heap[Docs(c)[i]].lang = corpora[c].lang

C6_Witness ==
    /\ last.op = "add_doc"
    /\ last.outcome = "ValueError"
    /\ \E c \in CorpusIds : Len(Docs(c)) >= 1 /\ heap[last.arg].lang # corpora[c].lang

(***************************************************************************)
(* Claims about TextDoc.term_counts and TextDoc.term_count, under          *)
(* SpecTerms.                                                              *)
(***************************************************************************)
\* the argument combinations of term_counts
TermCountsArgs == Modes \X Ranges \X Includes
\* term_counts_result / returns_only_requested for one argument combination
CallOn(tc, a) ==
    term_counts_result(tdoc, tc, a[1], a[2], a[3][1], a[3][2], a[3][3])
OnlyRequested(a) ==
    returns_only_requested(tdoc, term_counts_, a[1], a[2], a[3][1], a[3][2], a[3][3])

\* C7: term_counts is idempotent under repeated calls with the same
\* arguments: whatever the doc, whatever calls were made on it before and
\* whatever the argument combination, the second of two consecutive calls with
\* the same arguments returns the mapping the first returned and leaves
\* _term_counts exactly as the first call left it.
C7_TermCountsIdempotent ==
    \A a \in TermCountsArgs :
        \E first \in {CallOn(term_counts_, a)} : CallOn(first, a) = first

\* C7 witness: a term_counts call has just counted a term that occurs twice,
\* and calling again with the arguments that counted it leaves the count at 2.
C7_Witness ==
    /\ tlast.op = "term_counts"
    /\ \E t \in DOMAIN term_counts_ : term_counts_[t] = 2
    /\ \E a \in TermCountsArgs :
        /\ a[2][1] <= a[2][2]
        /\ CallOn(Counter0, a) = term_counts_
        /\ CallOn(term_counts_, a) = term_counts_

\* C8: after any sequence of term_counts and term_count calls on one doc, no
\* extraction contributes twice to a memoized count: the count stored for a
\* term is the maximum, over the extractions performed so far, of the term's
\* number of occurrences in that extraction, never a sum of two extractions.
C8_CountsAreMaxima == term_counts_ = performed

\* C9: term_counts returns counts only for the kinds of term its arguments
\* request: whatever calls were made on the doc before, the mapping a call
\* returns is the merge of the extractions of the n-grams of its ngram_range
\* and of the named entities, noun chunks and key terms its flags include.
C9_ReturnsOnlyRequested ==
    [][tlast'.op = "term_counts" =>
        \A a \in TermCountsArgs :
            term_counts_' = CallOn(term_counts_, a) => term_counts_' = OnlyRequested(a)]_vars

\* the n-grams of order n are in tc: every id the extraction of that order
\* counts is there with at least that count
order_in_term_counts(doc, tc, n) ==
    \A t \in DOMAIN doc.counts[<<"auto", "ngram", n>>] :
        Get(tc, t) >= doc.counts[<<"auto", "ngram", n>>][t]

\* C10: when the n-grams of the term's own order are already in
\* _term_counts, term_count for an absent term leaves _term_counts unchanged.
C10_NoExtensionWhenOrderCounted ==
    [][tlast'.op = "term_count" =>
        \A term \in TermInputs(tdoc.tokens) :
            (/\ Get(term_counts_, term_text_of(tdoc.tokens, term)) = 0
             /\ order_in_term_counts(tdoc, term_counts_, term_len_of(tdoc.tokens, term))
             /\ \E r \in {term_count_result(tdoc, term_counts_, term)} :
                    term_counts_' = r.tc /\ tlast'.ret = r.ret)
            => term_counts_' = term_counts_]_vars

\* C11: term_count never raises for a term that is not found: it returns the
\* memoized count when that is positive, otherwise the count after the lazy
\* extension when that is positive, and otherwise the number of literal
\* occurrences of the term's text in the doc's raw text (0 when there are
\* none).  Stated of the call made on any reachable state with any term.
C11_TermCountFallsBack ==
    \A term \in TermInputs(tdoc.tokens) :
        \E r \in {term_count_result(tdoc, term_counts_, term)},
           id \in {term_text_of(tdoc.tokens, term)} :
            /\ r.ret \in Nat
            /\ r.ret = IF Get(term_counts_, id) > 0 THEN Get(term_counts_, id)
                       ELSE IF Get(r.tc, id) > 0 THEN Get(r.tc, id)
                       ELSE finditer_count(id, raw_text(tdoc.tokens), 1)

\* C11 witness: a term_count call has just returned a positive count for a
\* term that is in _term_counts neither before nor after the lazy extension:
\* the count of the regular expression.
C11_Witness ==
    /\ tlast.op = "term_count"
    /\ tlast.ret > 0
    /\ term_counts_ # Counter0
    /\ \E term \in TermInputs(tdoc.tokens) :
        /\ Get(term_counts_, term_text_of(tdoc.tokens, term)) = 0
        /\ term_count_result(tdoc, term_counts_, term).ret = tlast.ret
        /\ \A other \in TermInputs(tdoc.tokens) :
            Get(term_counts_, term_text_of(tdoc.tokens, other)) > 0
            => term_count_result(tdoc, term_counts_, other).ret # tlast.ret

(***************************************************************************)
(* Claims about TextDoc.as_terms_list, under SpecList.                     *)
(***************************************************************************)
\* C12: as_terms_list with dedupe=True and named_entities=True never yields a
\* word or n-gram term whose token span coincides with the span of an emitted
\* named entity, and the entities are emitted before all words and n-grams.
C12_NoTermOnEntitySpan ==
    (tlast.op = "as_terms_list" /\ tlast.dedupe /\ tlast.named_entities) =>
        \A i, j \in DOMAIN tlast.ret :
            (tlast.ret[i].kind = "ne" /\ tlast.ret[j].kind # "ne") =>
                /\ tlast.ret[j].span # tlast.ret[i].span
                /\ i < j

(***************************************************************************)
(* Claims about TextDoc.__init__, under SpecDoc.                           *)
(***************************************************************************)
\* the document's language: the lang argument when given, otherwise the
\* language detected in its text
doc_language(call) ==
    IF call.lang # None THEN call.lang ELSE detect_language(call.text)

\* C13: constructing a TextDoc from a raw text or from an already-parsed
\* document, with a supplied pipeline whose language differs from the
\* document's language, raises ValueError; and no TextDoc whose lang differs
\* from its pipeline's lang is produced.
C13_MismatchRaises ==
    (last.op = "TextDoc" /\ last.kind \in {"str", "sdoc"}
        /\ last.spacy_pipeline # None) =>
        /\ last.spacy_pipeline # doc_language(last) => last.outcome = "ValueError"
        /\ last.outcome = "ok" => heap[last.stored].lang = last.spacy_pipeline

(***************************************************************************)
(* Claims about TextCorpus.get_docs, under SpecGet.                        *)
(***************************************************************************)
\* the positions, in corpus c, of the docs that cond matches
MatchingAt(c, cond) ==
    {i \in 1..Len(Docs(c)) : match_condition(cond, heap[Docs(c)[i]])}
\* the position of the k-th match
KthMatch(c, cond, k) ==
    CHOOSE i \in MatchingAt(c, cond) :
        Cardinality({j \in MatchingAt(c, cond) : j < i}) = k - 1

\* C14: get_docs(match_condition, limit) yields, in corpus order and without
\* changing the corpus, exactly the docs that match when limit is None, and
\* otherwise exactly the first min(limit, number of matching docs) of them.
C14_GetDocsYieldsMatches ==
    [][last'.op = "get_docs" =>
        /\ heap' = heap /\ corpora' = corpora
        /\ \E c \in {last'.corpus}, cond \in {last'.cond} :
            \E n \in {IF last'.limit = NoLimit THEN Cardinality(MatchingAt(c, cond))
                      ELSE Min(last'.limit, Cardinality(MatchingAt(c, cond)))} :
                /\ Len(last'.ret) = n
                /\ \A k \in 1..n : last'.ret[k] = Docs(c)[KthMatch(c, cond, k)]]_vars

\* C14 witness: a get_docs call with limit 1 on a corpus whose second doc
\* matches and whose first does not, or that holds two matching docs.
C14_Witness ==
    /\ last.op = "get_docs"
    /\ last.limit = 1
    /\ Len(last.ret) = 1
    /\ \/ Cardinality(MatchingAt(last.corpus, last.cond)) = 2
       \/ MatchingAt(last.corpus, last.cond) = {2}

RECURSIVE SentsOf(_)
SentsOf(ds) == IF ds = <<>> THEN 0 ELSE heap[Head(ds)].n_sents + SentsOf(Tail(ds))
RECURSIVE TokensOf(_)
TokensOf(ds) == IF ds = <<>> THEN 0 ELSE heap[Head(ds)].n_tokens + TokensOf(Tail(ds))

\* C16: in every state reachable by add_text, add_doc, remove_doc and
\* remove_docs calls, the aggregate counters match the docs held: n_docs (and
\* len(corpus)) is the number of docs in the corpus, n_sents the sum of their
\* sentence counts, n_tokens the sum of their token counts.
C16_CountersMatchDocs ==
    \A c \in CorpusIds : corpora[c].exists =>
        /\ corpora[c].n_docs = Len(corpora[c].docs)
        /\ len(corpora[c]) = Len(corpora[c].docs)
        /\ corpora[c].n_sents = SentsOf(corpora[c].docs)
        /\ corpora[c].n_tokens = TokensOf(corpora[c].docs)

\* C16 witness: a removal has just been called on a corpus that holds two
\* docs, which its counters count.
C16_Witness ==
    /\ last.op \in {"remove_doc", "remove_docs"}
    /\ \E c \in CorpusIds :
        /\ Len(Docs(c)) = 2
        /\ corpora[c].n_docs = 2
        /\ corpora[c].n_sents = SentsOf(Docs(c))
        /\ corpora[c].n_sents >= 2

\* C17: a remove_doc(index) call that does not remove a document (it raises)
\* leaves the corpus as it was before the call: the doc sequence, every doc's
\* corpus_index, and n_docs, n_sents, n_tokens are all unchanged.
C17_FailedRemoveChangesNothing ==
    [][(last'.op = "remove_doc" /\ last'.outcome # "ok") =>
        /\ corpora' = corpora
        /\ \A c \in CorpusIds : \A i \in 1..Len(Docs(c)) :
            heap'[Docs(c)[i]].corpus_index = heap[Docs(c)[i]].corpus_index]_vars

\* C18: add_doc of a doc whose lang differs from the corpus's lang raises
\* ValueError before any mutation: a doc is stored only in a corpus of its own
\* lang, and a call that raises leaves the corpus's doc sequence and counters
\* unchanged, gives the rejected doc no corpus_index or corpus attribute, and
\* copies nothing.
C18_MismatchRejectedUnchanged ==
    [][last'.op = "add_doc" =>
        /\ last'.outcome = "ok" =>
            heap[last'.arg].lang = corpora[heap'[last'.stored].corpus].lang
        /\ last'.outcome # "ok" =>
            /\ last'.outcome = "ValueError"
            /\ corpora' = corpora
            /\ heap' = heap]_vars

\* C18 witness: add_doc has just rejected a doc that was never added to a
\* corpus, and the doc still has no corpus_index.
C18_Witness ==
    /\ last.op = "add_doc"
    /\ last.outcome = "ValueError"
    /\ ~heap[last.arg].has_corpus_index
    /\ ~Owned(last.arg)
    /\ \E c \in CorpusIds : corpora[c].exists /\ corpora[c].lang # heap[last.arg].lang

====
